---- MODULE Spec2Model ----
(***************************************************************************)
(* A model of two leaf components of the dashboard shell:                  *)
(*   - Checkbox   (ToggleControl)   : value model and toggle semantics     *)
(*   - DetailText (RevealableText)  : classification, truncation, conceal  *)
(*                                                                         *)
(* JavaScript scalars are encoded as strings so that values of different   *)
(* JS types can be compared with ===:                                      *)
(*   "true" "false"   booleans        "null"        null / undefined       *)
(*   "s:" "s:a" ...   strings         "n:0" "n:1"   numbers                *)
(* A checkbox value is a record [multi, items, scalar]: an array (multi)   *)
(* with its items, or a scalar.                                            *)
(***************************************************************************)
EXTENDS Integers, Sequences, FiniteSets, TLC

VARIABLES
    \* ---- Checkbox ----
    value,            \* props.value (owned by the parent)
    valueWhenTrue,    \* props.valueWhenTrue
    disabled,         \* props.disabled
    mode,             \* props.mode
    indeterminate,    \* props.indeterminate
    emitted,          \* log of 'update:value' payloads, oldest first
    pending,          \* an emitted proposal the owner has not fed back yet
    activations,      \* number of activations handled by clicked()
    lastEvent,        \* the last event handled: target, defaultPrevented, return
    origin,           \* the value the instance was created with
    fedCount,         \* number of proposals the owner has fed back
    \* ---- DetailText ----
    dtValue,          \* props.value (a string, as a sequence of characters)
    maxLength,        \* props.maxLength
    binary,           \* props.binary: "null" (autodetect), "true", "false"
    conceal,          \* props.conceal
    concealStandAlone,\* props.concealStandAlone
    copy,             \* props.copy
    expanded,         \* data.expanded
    standAloneHide,   \* data.standAloneHide
    prefHideSensitive,\* store getter prefs/get(HIDE_SENSITIVE)
    clipboard,        \* what the last copy action put on the clipboard
    expandCalls,      \* number of expand() calls so far
    hideClicks        \* number of clicks on the standalone hide button

cbVars == <<value, valueWhenTrue, disabled, mode, indeterminate, emitted,
            pending, activations, lastEvent, origin, fedCount>>
dtVars == <<dtValue, maxLength, binary, conceal, concealStandAlone, copy,
            expanded, standAloneHide, prefHideSensitive, clipboard, expandCalls,
            hideClicks>>
vars == <<cbVars, dtVars>>

----------------------------------------------------------------------------
(* Bounds *)

MaxItems == 2        \* longest initial collection value
MaxEmits == 2        \* longest log of emitted proposals
MaxActivations == 3  \* activations handled per instance

----------------------------------------------------------------------------
(* JavaScript values *)

StringVals == {"s:", "s:a", "s:b"}
NumberVals == {"n:0", "n:1"}
BoolVals == {"true", "false"}
ScalarVals == BoolVals \cup StringVals \cup NumberVals \cup {"null"}

\* ToBoolean: the falsy scalars are false, null/undefined, "" and 0
Truthy(s) == s \notin {"false", "null", "s:", "n:0"}

Bool(b) == IF b THEN "true" ELSE "false"

Arr(items) == [multi |-> TRUE, items |-> items, scalar |-> "null"]
Sc(s) == [multi |-> FALSE, items |-> <<>>, scalar |-> s]

\* !!value: every array is truthy
TruthyValue(v) == IF v.multi THEN TRUE ELSE Truthy(v.scalar)

\* what a collection value may hold: strings and booleans
ItemVals == {"true", "false", "s:", "s:a", "s:b"}
\* props.valueWhenTrue: Boolean, String or Number
SentinelVals == {"true", "false", "s:", "s:a", "n:0", "n:1"}
\* props.value as a scalar: Boolean or String, or the null a toggle emits
ScalarValueVals == {"true", "false", "null", "s:", "s:a", "s:b"}

SeqsUpTo(S, n) == UNION {[1..k -> S] : k \in 0..n}

_VIEW == "view"
_EDIT == "edit"

----------------------------------------------------------------------------
(* @shell/utils/array *)

RECURSIVE indexOf(_, _, _)
\* first index >= i holding obj, 0 when absent
indexOf(ary, obj, i) ==
    IF i > Len(ary) THEN 0
    ELSE IF ary[i] = obj THEN i
    ELSE indexOf(ary, obj, i + 1)

\* removes one matching entry, the first occurrence
removeObject(ary, obj) ==
    LET idx == indexOf(ary, obj, 1) IN
    IF idx = 0 THEN ary
    ELSE [k \in 1..(Len(ary) - 1) |-> IF k < idx THEN ary[k] ELSE ary[k + 1]]

\* appends obj at the end
addObject(ary, obj) == Append(ary, obj)

----------------------------------------------------------------------------
(* Checkbox: computed properties and methods *)

\* variant: the mode is not consulted
isDisabled_ignoresMode == disabled

isDisabled == disabled \/ mode = _VIEW

isMulti(v) == v.multi

isString(s) == s \in StringVals

\* value.find((v) => v === this.valueWhenTrue) || false
\* : the element found when it is truthy, otherwise false
findTrueValues(items) ==
    LET idx == indexOf(items, valueWhenTrue, 1)
        found == IF idx = 0 THEN "null" ELSE items[idx]
    IN IF Truthy(found) THEN found ELSE "false"

isChecked ==
    IF isMulti(value) THEN findTrueValues(value.items)
    ELSE Bool(value.scalar = valueWhenTrue)

\* :checked="isChecked" on the native input
inputChecked == Truthy(isChecked)

\* :aria-checked="!!value" on the role=checkbox element
ariaChecked == TruthyValue(value)

\* variant: no copy is taken, the working value is the prop itself
cloneDeep_shared(v) == [shared |-> TRUE, val |-> v]

\* lodash cloneDeep: a fresh copy that shares nothing with its argument
cloneDeep(v) == [shared |-> FALSE, val |-> v]

\* the link test at the top of clicked()
isLinkWithHref(target) == target.tagName = "A" /\ Truthy(target.href)

Targets ==
    { [tagName |-> "LABEL", href |-> "null"],
      [tagName |-> "SPAN",  href |-> "null"],
      [tagName |-> "A",     href |-> "s:a"],
      [tagName |-> "A",     href |-> "s:"] }

NoEvent == [target |-> [tagName |-> "NONE", href |-> "null"],
            defaultPrevented |-> FALSE, returned |-> "null"]

\* variant: the two collection branches are swapped
toggledItems_swapped(items) ==
    IF Truthy(isChecked) THEN addObject(items, valueWhenTrue)
    ELSE removeObject(items, valueWhenTrue)

\* the payload of the single $emit of clicked(), and the array the
\* working copy ends up as
toggledItems(items) ==
    IF Truthy(isChecked) THEN removeObject(items, valueWhenTrue)
    ELSE addObject(items, valueWhenTrue)

proposal(working) ==
    IF isMulti(working.val) THEN Arr(toggledItems(working.val.items))
    ELSE IF isString(valueWhenTrue)
         THEN (IF Truthy(isChecked) THEN Sc("null") ELSE Sc(valueWhenTrue))
    ELSE Sc(Bool(~Truthy(working.val.scalar)))

clicked(target) ==
    /\ activations < MaxActivations
    /\ activations' = activations + 1
    /\ IF isLinkWithHref(target)
       THEN /\ lastEvent' = [target |-> target, defaultPrevented |-> FALSE,
                             returned |-> "true"]
            /\ UNCHANGED <<value, emitted, pending>>
       ELSE /\ lastEvent' = [target |-> target, defaultPrevented |-> TRUE,
                             returned |-> "null"]
            /\ IF isDisabled
               THEN UNCHANGED <<value, emitted, pending>>
               ELSE /\ Len(emitted) < MaxEmits
                    /\ LET working == cloneDeep(value)
                           payload == proposal(working)
                       IN /\ emitted' = Append(emitted, payload)
                          \* addObject/removeObject write to the working
                          \* array; the prop sees it only if it is shared
                          /\ value' = IF working.shared /\ isMulti(working.val)
                                      THEN payload ELSE value
                    /\ pending' = TRUE
    /\ UNCHANGED <<valueWhenTrue, disabled, mode, indeterminate, origin, fedCount>>
    /\ UNCHANGED dtVars

\* the owner applies the latest proposal (v-model:value)
OwnerFeedsBack ==
    /\ pending
    /\ value' = emitted[Len(emitted)]
    /\ pending' = FALSE
    /\ fedCount' = fedCount + 1
    /\ UNCHANGED <<valueWhenTrue, disabled, mode, indeterminate, emitted,
                   activations, lastEvent, origin>>
    /\ UNCHANGED dtVars

SetDisabled ==
    /\ disabled' = ~disabled
    /\ UNCHANGED <<value, valueWhenTrue, mode, indeterminate, emitted, pending,
                   activations, lastEvent, origin, fedCount>>
    /\ UNCHANGED dtVars

SetMode ==
    /\ mode' = IF mode = _VIEW THEN _EDIT ELSE _VIEW
    /\ UNCHANGED <<value, valueWhenTrue, disabled, indeterminate, emitted, pending,
                   activations, lastEvent, origin, fedCount>>
    /\ UNCHANGED dtVars

SetIndeterminate ==
    /\ indeterminate' = ~indeterminate
    /\ UNCHANGED <<value, valueWhenTrue, disabled, mode, emitted, pending,
                   activations, lastEvent, origin, fedCount>>
    /\ UNCHANGED dtVars

CheckboxValues ==
    {Sc(s) : s \in ScalarValueVals} \cup {Arr(a) : a \in SeqsUpTo(ItemVals, MaxItems)}

CheckboxInit ==
    /\ value \in CheckboxValues
    /\ valueWhenTrue \in SentinelVals
    /\ disabled \in BOOLEAN
    /\ mode \in {_EDIT, _VIEW}
    /\ indeterminate \in BOOLEAN
    /\ emitted = <<>>
    /\ pending = FALSE
    /\ activations = 0
    /\ lastEvent = NoEvent
    /\ origin = value
    /\ fedCount = 0

DetailTextIdle ==
    /\ dtValue = <<>>
    /\ maxLength = 0
    /\ binary = "null"
    /\ conceal = FALSE
    /\ concealStandAlone = FALSE
    /\ copy = TRUE
    /\ expanded = TRUE
    /\ standAloneHide = TRUE
    /\ prefHideSensitive = FALSE
    /\ clipboard = <<>>
    /\ expandCalls = 0
    /\ hideClicks = 0

CheckboxNext ==
    \/ \E target \in Targets : clicked(target)
    \/ OwnerFeedsBack
    \/ SetDisabled
    \/ SetMode
    \/ SetIndeterminate

InitCheckbox == CheckboxInit /\ DetailTextIdle

SpecCheckbox == InitCheckbox /\ [][CheckboxNext]_vars

CheckboxIdle ==
    /\ value = Sc("false")
    /\ valueWhenTrue = "true"
    /\ disabled = FALSE
    /\ mode = _EDIT
    /\ indeterminate = FALSE
    /\ emitted = <<>>
    /\ pending = FALSE
    /\ activations = 0
    /\ lastEvent = NoEvent
    /\ origin = value
    /\ fedCount = 0

----------------------------------------------------------------------------
(* DetailText: bounds and characters *)

MaxChars == 3        \* longest props.value
MaxLengthProp == 2   \* largest props.maxLength
MaxHideClicks == 2   \* clicks on the standalone hide button per instance

\* "0xFF" stands for a character outside [\r\n\t\x20-\x7F]
Chars == {"{", "}", "[", "]", " ", "0xFF"}
AsciiChars == Chars \ {"0xFF"}

Min(a, b) == IF a < b THEN a ELSE b
Max(a, b) == IF a > b THEN a ELSE b

----------------------------------------------------------------------------
(* @shell/utils/string, @shell/utils/crypto *)

asciiLike(str) == \A i \in 1..Len(str) : str[i] \in AsciiChars

binarySize(val) == Len(val)

----------------------------------------------------------------------------
(* String.prototype and JSON *)

startsWith(str, c) == Len(str) > 0 /\ str[1] = c

\* variant: one character too many is kept
slice_offByOne(str, n) == SubSeq(str, 1, Min(n + 1, Len(str)))

\* String.prototype.slice(0, n) for n >= 0
slice(str, n) == SubSeq(str, 1, Min(n, Len(str)))

RECURSIVE trimStart(_)
trimStart(str) ==
    IF Len(str) > 0 /\ str[1] = " " THEN trimStart(Tail(str)) ELSE str

RECURSIVE trimEnd(_)
trimEnd(str) ==
    IF Len(str) > 0 /\ str[Len(str)] = " "
    THEN trimEnd(SubSeq(str, 1, Len(str) - 1)) ELSE str

trim(str) == trimEnd(trimStart(str))

NoParse == [ok |-> FALSE, depth |-> 0, leaf |-> "{"]

\* JSON.parse on the texts Chars can spell: whitespace around a value that is
\* an empty object, an empty array, or an array of one value.  The result is
\* the leaf ("{" or "[") and the number of arrays around it.
RECURSIVE parseValue(_)
parseValue(str) ==
    LET t == trim(str)
        n == Len(t)
        inner == trim(SubSeq(t, 2, n - 1))
    IN IF n < 2 THEN NoParse
       ELSE IF t[1] = "{" /\ t[n] = "}"
            THEN (IF inner = <<>> THEN [ok |-> TRUE, depth |-> 0, leaf |-> "{"]
                  ELSE NoParse)
       ELSE IF t[1] = "[" /\ t[n] = "]"
            THEN (IF inner = <<>> THEN [ok |-> TRUE, depth |-> 0, leaf |-> "["]
                  ELSE LET p == parseValue(inner)
                       IN IF p.ok THEN [p EXCEPT !.depth = p.depth + 1]
                          ELSE NoParse)
       ELSE NoParse

JSONparse(str) == parseValue(str)

spaces(n) == [i \in 1..n |-> " "]

\* JSON.stringify(parsed, null, 2)
RECURSIVE stringifyAt(_, _)
stringifyAt(parsed, level) ==
    IF parsed.depth = 0
    THEN (IF parsed.leaf = "{" THEN <<"{", "}">> ELSE <<"[", "]">>)
    ELSE <<"[", "\n">> \o spaces(2 * (level + 1))
         \o stringifyAt([parsed EXCEPT !.depth = parsed.depth - 1], level + 1)
         \o <<"\n">> \o spaces(2 * level) \o <<"]">>

JSONstringify(parsed) == stringifyAt(parsed, 0)

----------------------------------------------------------------------------
(* DetailText: data, computed properties, template, methods *)

data == [expanded |-> Len(dtValue) <= maxLength, standAloneHide |-> TRUE]

isBinary ==
    IF binary = "null" THEN ~asciiLike(dtValue) ELSE binary = "true"

size == Len(dtValue)

isLong == size > maxLength

isEmpty == size = 0

\* the binary summary is t('detailText.binary', { n })
body ==
    IF isBinary
    THEN [kind |-> "binary", n |-> IF Len(dtValue) > 0 THEN binarySize(dtValue) ELSE 0,
          text |-> <<>>]
    ELSE IF expanded THEN [kind |-> "text", n |-> 0, text |-> dtValue]
    ELSE [kind |-> "text", n |-> 0, text |-> slice(dtValue, maxLength)]

NullStr == [null |-> TRUE, str |-> <<>>]

jsonStr ==
    IF Len(dtValue) > 0 /\ (startsWith(dtValue, "{") \/ startsWith(dtValue, "["))
    THEN LET parsed == JSONparse(dtValue)
         IN IF parsed.ok THEN [null |-> FALSE, str |-> JSONstringify(parsed)]
            ELSE NullStr
    ELSE NullStr

plusMore ==
    IF expanded THEN [key |-> "detailText.collapse", n |-> 0]
    ELSE [key |-> "detailText.plusMore", n |-> Max(size - maxLength, 0)]

\* variant: the standalone flag is never consulted
hideSensitiveData_prefOnly == prefHideSensitive

hideSensitiveData ==
    IF concealStandAlone THEN standAloneHide ELSE prefHideSensitive

concealed == conceal /\ hideSensitiveData /\ ~isBinary

\* variant: the binary test comes before the empty test
rendering_binaryFirst ==
    IF isBinary THEN "binary"
    ELSE IF isEmpty THEN "empty"
    ELSE IF ~jsonStr.null THEN "json"
    ELSE "text"

\* the v-if / v-else-if / v-else chain of the template
rendering ==
    IF isEmpty THEN "empty"
    ELSE IF isBinary THEN "binary"
    ELSE IF ~jsonStr.null THEN "json"
    ELSE "text"

\* the 'conceal' class is bound on the JSON viewer and on the text span only
concealClass == rendering \in {"json", "text"} /\ concealed

\* <template v-if="!isBinary && !jsonStr && isLong && !expanded">
showsMore == ~isBinary /\ jsonStr.null /\ isLong /\ ~expanded

\* <button v-if="conceal && concealStandAlone" class="sensitive ...">
showsSensitiveButton == conceal /\ concealStandAlone

\* <CopyToClipboard v-if="copy && !isBinary" :text="value">
showsCopy == copy /\ ~isBinary

\* variant: the rendered body is copied instead of the value
copyText_body == body.text

copyText == dtValue

\* @click.prevent="expand" on the affordance
expand ==
    /\ showsMore
    /\ expanded' = ~expanded
    /\ expandCalls' = expandCalls + 1
    /\ UNCHANGED <<dtValue, maxLength, binary, conceal, concealStandAlone, copy,
                   standAloneHide, prefHideSensitive, clipboard, hideClicks>>
    /\ UNCHANGED cbVars

\* @click="standAloneHide = !standAloneHide"
SensitiveClicked ==
    /\ showsSensitiveButton
    /\ hideClicks < MaxHideClicks
    /\ standAloneHide' = ~standAloneHide
    /\ hideClicks' = hideClicks + 1
    /\ UNCHANGED <<dtValue, maxLength, binary, conceal, concealStandAlone, copy,
                   expanded, prefHideSensitive, clipboard, expandCalls>>
    /\ UNCHANGED cbVars

\* the copy button puts its text on the clipboard
CopyClicked ==
    /\ showsCopy
    /\ clipboard' = copyText
    /\ UNCHANGED <<dtValue, maxLength, binary, conceal, concealStandAlone, copy,
                   expanded, standAloneHide, prefHideSensitive, expandCalls, hideClicks>>
    /\ UNCHANGED cbVars

\* the user changes the shared preference elsewhere in the application
PrefChanged ==
    /\ prefHideSensitive' = ~prefHideSensitive
    /\ UNCHANGED <<dtValue, maxLength, binary, conceal, concealStandAlone, copy,
                   expanded, standAloneHide, clipboard, expandCalls, hideClicks>>
    /\ UNCHANGED cbVars

DetailTextInit ==
    /\ dtValue \in SeqsUpTo(Chars, MaxChars)
    /\ maxLength \in 0..MaxLengthProp
    /\ binary \in {"null", "true", "false"}
    /\ conceal \in BOOLEAN
    /\ concealStandAlone \in BOOLEAN
    /\ copy \in BOOLEAN
    /\ expanded = data.expanded
    /\ standAloneHide = data.standAloneHide
    /\ prefHideSensitive \in BOOLEAN
    /\ clipboard = <<>>
    /\ expandCalls = 0
    /\ hideClicks = 0

DetailTextNext ==
    \/ expand
    \/ SensitiveClicked
    \/ CopyClicked
    \/ PrefChanged

InitDetailText == DetailTextInit /\ CheckboxIdle

SpecDetailText == InitDetailText /\ [][DetailTextNext]_vars

----------------------------------------------------------------------------
(* Checkbox properties *)

Elements(items) == {items[i] : i \in 1..Len(items)}

\* C1: checked is true iff valueWhenTrue is an element of a collection
\* value (falsy sentinels included), and iff value === valueWhenTrue for
\* a scalar value.
C1_CheckedIffMember ==
    IF value.multi
    THEN inputChecked <=> (valueWhenTrue \in Elements(value.items))
    ELSE inputChecked <=> (value.scalar = valueWhenTrue)

\* the items without their first occurrence of x
WithoutFirst(items, x) ==
    IF x \notin Elements(items) THEN items
    ELSE LET i == CHOOSE k \in 1..Len(items) :
                      items[k] = x /\ \A j \in 1..(k - 1) : items[j] # x
         IN SubSeq(items, 1, i - 1) \o SubSeq(items, i + 1, Len(items))

C2_Expected ==
    IF value.multi
    THEN (IF inputChecked THEN Arr(WithoutFirst(value.items, valueWhenTrue))
          ELSE Arr(value.items \o <<valueWhenTrue>>))
    ELSE IF valueWhenTrue \in StringVals
         THEN (IF inputChecked THEN Sc("null") ELSE Sc(valueWhenTrue))
    ELSE Sc(IF TruthyValue(value) THEN "false" ELSE "true")

Equivalent(a, b) ==
    IF a.multi /\ b.multi THEN Elements(a.items) = Elements(b.items)
    ELSE IF ~a.multi /\ ~b.multi
         THEN \/ a.scalar = b.scalar
              \/ a.scalar # valueWhenTrue /\ b.scalar # valueWhenTrue
    ELSE FALSE

\* the three value modes: collection, custom-sentinel string with any
\* scalar, plain boolean
InValueMode(v) ==
    \/ v.multi
    \/ valueWhenTrue \in StringVals
    \/ v.scalar \in BoolVals

\* C3: two toggles, each fed back by the owner, return to a value equivalent
\* to the starting value, in all three value modes.
C3_RoundTrip ==
    (fedCount = 2 /\ InValueMode(origin)) => Equivalent(origin, value)

\* C4: an activation emits exactly one update:value when the control is not
\* disabled and the target is not a hyperlink with an href, and nothing
\* otherwise; nothing but an activation emits.
C4_EmitsOnceOrNever ==
    [][IF activations' = activations + 1
       THEN IF ~(disabled \/ mode = "view")
               /\ ~(lastEvent'.target.tagName = "A" /\ lastEvent'.target.href # "s:"
                                                   /\ lastEvent'.target.href # "null")
            THEN /\ Len(emitted') = Len(emitted) + 1
                 /\ SubSeq(emitted', 1, Len(emitted)) = emitted
            ELSE emitted' = emitted
       ELSE emitted' = emitted]_vars

\* one activation has emitted, and two more (one in view mode, one on a
\* hyperlink) have not
C4_Witness ==
    /\ activations = 3
    /\ Len(emitted) = 1
    /\ mode = "view"
    /\ lastEvent.target.tagName = "A"
    /\ lastEvent.returned = "true"

\* C5: no activation changes the value prop; the proposal travels only in
\* the notification.
C5_ValueNotMutated ==
    [][activations' = activations + 1 => value' = value]_vars

\* a collection value has been toggled both ways without being fed back,
\* and it is still the value the instance was created with
C5_Witness ==
    /\ origin.multi
    /\ fedCount = 0
    /\ Len(emitted) >= 1
    /\ emitted[1] # origin
    /\ value = origin
    /\ Len(origin.items) = MaxItems

\* C10: aria-checked of the role=checkbox element equals the checked state
\* of the native input.
C10_AriaInSync == ariaChecked <=> inputChecked

----------------------------------------------------------------------------
(* DetailText properties *)

\* binary content: flagged, or not flagged either way and holding a
\* character that is not ASCII-like
BinaryContent ==
    \/ binary = "true"
    \/ binary = "null" /\ \E i \in 1..Len(dtValue) : dtValue[i] = "0xFF"

FirstChars(str, n) == [i \in 1..(IF n < Len(str) THEN n ELSE Len(str)) |-> str[i]]

C6_State ==
    /\ expandCalls = 0 => (expanded <=> Len(dtValue) <= maxLength)
    /\ (rendering = "text" /\ Len(dtValue) > maxLength /\ ~expanded)
         => (body.text = FirstChars(dtValue, maxLength) /\ showsMore)
    /\ expandCalls > 0
         => (expanded /\ ~showsMore /\ ~BinaryContent /\ body.text = dtValue)

C6_Step ==
    /\ expanded' # expanded => expandCalls' = expandCalls + 1
    /\ expandCalls' # expandCalls => (showsMore /\ ~expanded /\ expanded')

\* C6: expanded starts true iff value.length <= maxLength and changes only
\* through the expand action; long unexpanded plain text renders exactly its
\* first maxLength characters with the expand affordance; once the
\* affordance has been activated, expanded stays true, the affordance is
\* gone and the body is the full value.
C6_Truncation == []C6_State /\ [][C6_Step]_vars

\* a value longer than maxLength after its affordance was activated
C6_Witness ==
    /\ expandCalls = 1
    /\ Len(dtValue) = MaxChars
    /\ maxLength >= 1
    /\ maxLength < Len(dtValue)
    /\ body.text = dtValue

C7_State ==
    /\ concealed <=> (/\ conceal
                      /\ IF concealStandAlone THEN standAloneHide
                         ELSE prefHideSensitive
                      /\ ~BinaryContent)
    /\ hideClicks = 0 => standAloneHide

C7_Step ==
    hideClicks' # hideClicks
      => /\ dtValue' = dtValue
         /\ expanded' = expanded
         /\ conceal /\ concealStandAlone
         /\ ~BinaryContent => (concealed' <=> ~concealed)

\* C7: concealed is true iff conceal is requested, the effective hide flag
\* (standAloneHide, initially true, in standalone mode, the shared preference
\* otherwise) is true and the content is not binary; each activation of the
\* standalone hide button flips concealed for non-binary content and
\* changes neither value nor expanded.
C7_Concealed == []C7_State /\ [][C7_Step]_vars

\* the mask was taken off and put back with the standalone button while the
\* shared preference says not to hide
C7_Witness ==
    /\ hideClicks = 2
    /\ concealed
    /\ ~prefHideSensitive
    /\ Len(dtValue) > 0

BraceFirst(str) == Len(str) > 0 /\ str[1] \in {"{", "["}

Parses(str) == JSONparse(str).ok

C8_Common ==
    /\ Len(dtValue) = 0 => rendering = "empty"
    /\ (Len(dtValue) > 0 /\ BinaryContent)
         => (rendering = "binary" /\ ~showsMore /\ ~concealClass)
    /\ (Len(dtValue) > 0 /\ ~BinaryContent /\ BraceFirst(dtValue) /\ ~Parses(dtValue))
         => rendering = "text"

\* C8: one rendering by first match in the order empty, binary, JSON, plain
\* text; a non-binary value whose trimmed text starts with { or [ and
\* parses renders in the JSON viewer; one that starts with { or [ and does
\* not parse renders as plain text.
C8_TrimmedJson ==
    /\ C8_Common
    /\ (Len(dtValue) > 0 /\ ~BinaryContent /\ BraceFirst(trim(dtValue)) /\ Parses(dtValue))
         => rendering = "json"

\* C8 as amended: the value itself, untrimmed, has to start with { or [; a
\* value that does not (leading whitespace included) renders as plain text.
C8_UntrimmedJson ==
    /\ C8_Common
    /\ (Len(dtValue) > 0 /\ ~BinaryContent /\ BraceFirst(dtValue) /\ Parses(dtValue))
         => rendering = "json"
    /\ (Len(dtValue) > 0 /\ ~BinaryContent /\ ~BraceFirst(dtValue))
         => rendering = "text"

\* JSON behind a leading space is rendered as plain text
C8_Witness ==
    /\ dtValue = <<" ", "{", "}">>
    /\ binary = "null"
    /\ rendering = "text"

\* C9: with non-binary content the copy action is available and carries the
\* full value, whatever concealed, standAloneHide and expanded are; binary
\* content is the only case in which it is suppressed.
C9_CopyUnlessBinary ==
    /\ ~BinaryContent => showsCopy
    /\ ~showsCopy => BinaryContent
    /\ clipboard # <<>> => clipboard = dtValue

\* C9 as amended: the copy action is available iff the copy prop is set and
\* the content is not binary, and it carries the full value.
C9_CopyIffPropAndNotBinary ==
    /\ showsCopy <=> (copy /\ ~BinaryContent)
    /\ clipboard # <<>> => clipboard = dtValue

\* a masked, truncated value has been copied in full
C9_Witness ==
    /\ concealed
    /\ ~expanded
    /\ Len(body.text) < Len(dtValue)
    /\ clipboard = dtValue
    /\ Len(dtValue) = MaxChars

====
